---- MODULE Spec2Model ----
(***************************************************************************)
(* PHP class navigator for Sublime Text: the directory scan that builds    *)
(* the class map, the memoised lookup, the worker threads started by the   *)
(* search command, and the insertion of a use statement.                   *)
(*                                                                         *)
(* File text is a sequence of atoms.  An atom is one character ("/", "*",  *)
(* a quote, a line boundary, a blank) or one whole lexeme the regular      *)
(* expressions of the plugin match as a unit ("class Foo", a namespace     *)
(* statement).  Python positions are 0-based: the atom content[i] starts   *)
(* at position i-1 and content[:pos] is SubSeq(content, 1, pos).           *)
(***************************************************************************)
EXTENDS Integers, Sequences, FiniteSets, TLC

(* ------------------------------ bounds --------------------------------- *)
MaxLen == 6
MaxFiles == 2
MaxThreads == 2
MaxLines == 4

(* ------------------------------ atoms ---------------------------------- *)
NL == "\n"
FF == "\f"
DQ == "\""
SQ == "'"
NsStmt == "namespace Foo\\Bar;"
DeclAtoms == {"class Foo", "class Baz"}
LineBoundaries == {NL, FF}
ExtractAlphabet == {"/", "*", NL, FF, DQ, SQ, "class Foo"}

\* group(2) of (class|interface|trait)\s+(\w+)
group2(atom) == IF atom = "class Foo" THEN "Foo" ELSE "Baz"

RECURSIVE SeqsUpTo(_, _)
SeqsUpTo(S, n) ==
  IF n = 0 THEN {<<>>}
  ELSE LET shorter == SeqsUpTo(S, n - 1)
       IN shorter \cup {Append(s, a) : s \in {t \in shorter : Len(t) = n - 1}, a \in S}

(* ------------------------ str helpers of Python ------------------------ *)
\* a two-character substring: needle "ab" in s
Contains2(s, a, b) == \E i \in 1..(Len(s) - 1) : s[i] = a /\ s[i + 1] = b

RECURSIVE count(_, _)
count(s, ch) ==
  IF s = <<>> THEN 0
  ELSE (IF s[1] = ch THEN 1 ELSE 0) + count(Tail(s), ch)

\* str.splitlines(): cut after every line boundary, no empty last line
RECURSIVE splitlinesFrom(_, _, _, _)
splitlinesFrom(s, i, cur, acc) ==
  IF i > Len(s) THEN (IF cur = <<>> THEN acc ELSE Append(acc, cur))
  ELSE IF s[i] \in LineBoundaries THEN splitlinesFrom(s, i + 1, <<>>, Append(acc, cur))
  ELSE splitlinesFrom(s, i + 1, Append(cur, s[i]), acc)

splitlines(s) == splitlinesFrom(s, 1, <<>>, <<>>)

(* --------------------- is_in_comment_or_string ------------------------- *)
\* [raised |-> TRUE] is the IndexError of [][-1]; `or` evaluates left to right
is_in_comment_or_string(content, pos) ==
  LET preceding == SubSeq(content, 1, pos)
      lines == splitlines(preceding)
  IN IF Contains2(preceding, "/", "*") THEN [raised |-> FALSE, value |-> TRUE]
     ELSE IF lines = <<>> THEN [raised |-> TRUE, value |-> FALSE]
     ELSE [raised |-> FALSE,
           value |-> \/ Contains2(lines[Len(lines)], "/", "/")
                     \/ count(preceding, DQ) % 2 # 0
                     \/ count(preceding, SQ) % 2 # 0]

(* -------------------- extract_classes_from_file ------------------------ *)
\* re.search(r'namespace\s+([^;]+);', content), group(1).strip(), or ''
namespace_of(content) ==
  IF \E i \in 1..Len(content) : content[i] = NsStmt THEN "Foo\\Bar" ELSE ""

\* re.finditer: index of the first match at or after index from, 0 if none
NextMatch(content, from) ==
  IF \E i \in from..Len(content) : content[i] \in DeclAtoms
  THEN CHOOSE i \in from..Len(content) :
         /\ content[i] \in DeclAtoms
         /\ \A j \in from..(i - 1) : content[j] \notin DeclAtoms
  ELSE 0

\* one iteration of the for loop over the matches
\* st = [it: next index to search from, classes, status: "loop"|"returned"|"raised"]
LoopStep(content, namespace, st) ==
  LET m == NextMatch(content, st.it)
  IN IF m = 0 THEN [st EXCEPT !.status = "returned"]
     ELSE LET r == is_in_comment_or_string(content, m - 1)
          IN IF r.raised THEN [st EXCEPT !.status = "raised", !.it = m + 1]
             ELSE IF r.value THEN [st EXCEPT !.it = m + 1]
             ELSE [st EXCEPT !.it = m + 1,
                             !.classes = Append(@, <<group2(content[m]), namespace>>)]

RECURSIVE RunLoop(_, _, _)
RunLoop(content, namespace, st) ==
  IF st.status # "loop" THEN st
  ELSE RunLoop(content, namespace, LoopStep(content, namespace, st))

Unreadable == <<"\\xff">>

\* [raised, classes]; open() or read() raises on an unreadable file
extract_classes_from_file(content) ==
  IF content = Unreadable THEN [raised |-> TRUE, classes |-> <<>>]
  ELSE LET st == RunLoop(content, namespace_of(content),
                         [it |-> 1, classes |-> <<>>, status |-> "loop"])
       IN [raised |-> st.status = "raised", classes |-> st.classes]

(* ============================== state ================================== *)
VARIABLES
  content,   \* text of the file extract_classes_from_file has read
  loop,      \* its locals: pc, namespace, classes, it (index after the last match)
  dir,       \* the project directory in os.walk order: <<[path, content], ...>>
  threads,   \* the worker threads started by run, in start order
  cache,     \* the lru_cache of find_php_class, least recently used first
  timeouts,  \* callbacks passed to sublime.set_timeout and not yet run
  buffer,    \* text of the view InsertUseStatementCommand edits
  inserted   \* [by, point]: the revision whose command ran and where it inserted

vars == <<content, loop, dir, threads, cache, timeouts, buffer, inserted>>

scanVars == <<dir, threads, cache, timeouts>>
extractVars == <<content, loop>>
insertVars == <<buffer, inserted>>

(* ============ extract_classes_from_file, one match at a time =========== *)
ExtractIdle ==
  /\ content = <<>>
  /\ loop = [pc |-> "idle", namespace |-> "", classes |-> <<>>, it |-> 1]

ScanIdle ==
  /\ dir = <<>>
  /\ threads = <<>>
  /\ cache = <<>>
  /\ timeouts = <<>>

InsertIdle ==
  /\ buffer = <<>>
  /\ inserted = [by |-> "", point |-> -1]

ExtractInit ==
  /\ content \in SeqsUpTo(ExtractAlphabet, MaxLen)
  /\ loop = [pc |-> "open", namespace |-> "", classes |-> <<>>, it |-> 1]
  /\ ScanIdle
  /\ InsertIdle

\* with open(...) as f: content = f.read(); namespace_match = re.search(...)
ReadFile ==
  /\ loop.pc = "open"
  /\ loop' = [loop EXCEPT !.pc = "loop", !.namespace = namespace_of(content)]
  /\ UNCHANGED <<content, scanVars, insertVars>>

\* for match in re.finditer(...): if not is_in_comment_or_string: append
NextClassMatch ==
  /\ loop.pc = "loop"
  /\ LET st == LoopStep(content, loop.namespace,
                        [it |-> loop.it, classes |-> loop.classes, status |-> "loop"])
     IN loop' = [loop EXCEPT !.pc = st.status, !.it = st.it, !.classes = st.classes]
  /\ UNCHANGED <<content, scanVars, insertVars>>

ExtractNext == ReadFile \/ NextClassMatch

SpecExtract == ExtractInit /\ [][ExtractNext]_vars

(* ---- the PHP reading of a file text, for the claims about comments ---- *)
\* lexical region at index p: "code", "line", "block", "dq" or "sq"
RECURSIVE Lex(_, _, _, _)
Lex(text, i, region, p) ==
  IF i >= p THEN region
  ELSE IF region = "code" THEN
         IF text[i] = "/" /\ i + 1 < p /\ text[i + 1] = "/" THEN Lex(text, i + 2, "line", p)
         ELSE IF text[i] = "/" /\ i + 1 < p /\ text[i + 1] = "*" THEN Lex(text, i + 2, "block", p)
         ELSE IF text[i] = DQ THEN Lex(text, i + 1, "dq", p)
         ELSE IF text[i] = SQ THEN Lex(text, i + 1, "sq", p)
         ELSE Lex(text, i + 1, "code", p)
  ELSE IF region = "line" THEN Lex(text, i + 1, IF text[i] = NL THEN "code" ELSE "line", p)
  ELSE IF region = "block" THEN
         IF text[i] = "*" /\ i + 1 < p /\ text[i + 1] = "/" THEN Lex(text, i + 2, "code", p)
         ELSE Lex(text, i + 1, "block", p)
  ELSE IF region = "dq" THEN Lex(text, i + 1, IF text[i] = DQ THEN "code" ELSE "dq", p)
  ELSE Lex(text, i + 1, IF text[i] = SQ THEN "code" ELSE "sq", p)

\* index p lies in a string literal that opens before it and closes after it
InStringLiteral(text, p) ==
  LET region == Lex(text, 1, "code", p)
  IN \/ region = "dq" /\ \E j \in (p + 1)..Len(text) : text[j] = DQ
     \/ region = "sq" /\ \E j \in (p + 1)..Len(text) : text[j] = SQ

\* index p lies between a /* and the first */ after it
InBlockComment(text, p) ==
  \E i \in 1..(p - 2) :
    /\ text[i] = "/" /\ text[i + 1] = "*"
    /\ ~ Contains2(SubSeq(text, i + 2, p - 1), "*", "/")
    /\ Contains2(SubSeq(text, p + 1, Len(text)), "*", "/")

\* the text between the last newline before index p and p
RECURSIVE LineStart(_, _)
LineStart(text, p) ==
  IF p = 1 \/ text[p - 1] = NL THEN p ELSE LineStart(text, p - 1)

LineBefore(text, p) == SubSeq(text, LineStart(text, p), p - 1)

AfterSlashSlash(text, p) == Contains2(LineBefore(text, p), "/", "/")

\* the match the next iteration of the loop examines, 0 if none is left
Examined == IF loop.pc = "loop" THEN NextMatch(content, loop.it) ELSE 0
Returned == loop'.classes # loop.classes

\* C4: a declaration match inside a quoted string literal is never
\* returned by extract_classes_from_file, whatever quotes precede it.
C4_StringMatchNeverReturned ==
  [][(Examined # 0 /\ InStringLiteral(content, Examined)) => ~ Returned]_vars

\* C5: a declaration match between /* and its closing */, or after // on
\* its own line, is never returned by extract_classes_from_file.
C5_CommentMatchNeverReturned ==
  [][(Examined # 0 /\ (InBlockComment(content, Examined) \/ AfterSlashSlash(content, Examined)))
       => ~ Returned]_vars

\* C8: in a file with no /* and no quotes (and only \n line ends), a match
\* after position 0 is rejected exactly when // occurs earlier on its line.
C8_LineCommentExactlySameLine ==
  [][(/\ Examined > 1
      /\ ~ Contains2(content, "/", "*")
      /\ \A i \in 1..Len(content) : content[i] \notin {DQ, SQ, FF})
       => (Returned <=> ~ AfterSlashSlash(content, Examined))]_vars

(* ==================== the project directory and the scan =============== *)
Root == "/project"
Paths == {"a.php", "b.php", "c.txt"}

\* file.endswith('.php')
endswith_php(file) == file \in {"a.php", "b.php"}

NsBaz == <<NsStmt, " ", "class Baz">>     \* namespace Foo\Bar; class Baz {}
PlainBaz == <<" ", "class Baz">>          \* class Baz {} after a blank, no namespace
ZeroBaz == <<"class Baz">>                \* class Baz {} at offset 0
FileContents == {NsBaz, PlainBaz, ZeroBaz, Unreadable}

\* what a file other than .php holds is never read
Files == {[path |-> p, content |-> c] : p \in {q \in Paths : endswith_php(q)}, c \in FileContents}
         \cup {[path |-> p, content |-> PlainBaz] : p \in {q \in Paths : ~ endswith_php(q)}}

None == <<>>
EmptyMap == [k \in {} |-> None]

\* a dict that keeps the first value stored under a key
SetItemKeepsFirst(class_map, key, value) ==
  [k \in DOMAIN class_map \cup {key} |->
     IF k \in DOMAIN class_map THEN class_map[k] ELSE value]

\* class_map[key] = value
SetItem(class_map, key, value) ==
  [k \in DOMAIN class_map \cup {key} |-> IF k = key THEN value ELSE class_map[k]]

\* class_map.get(key)
Get(class_map, key) == IF key \in DOMAIN class_map THEN class_map[key] ELSE None

\* a fully-qualified name that drops the namespace
fqcn_without_namespace(namespace, cls_name) == cls_name

\* "%s\\%s" % (namespace, cls_name) if namespace else cls_name
fqcn_of(namespace, cls_name) ==
  IF namespace # "" THEN namespace \o "\\" \o cls_name ELSE cls_name

\* for cls_name, namespace in classes: the two assignments
RECURSIVE AddClasses(_, _, _, _)
AddClasses(class_map, classes, i, full_path) ==
  IF i > Len(classes) THEN class_map
  ELSE LET cls_name == classes[i][1]
           fqcn == fqcn_of(classes[i][2], cls_name)
           entry == <<fqcn, full_path>>
       IN AddClasses(SetItem(SetItem(class_map, cls_name, entry), fqcn, entry),
                     classes, i + 1, full_path)

\* for root, _, files in os.walk(directory): for file in files
RECURSIVE WalkFrom(_, _, _)
WalkFrom(directory, i, class_map) ==
  IF i > Len(directory) THEN [raised |-> FALSE, class_map |-> class_map]
  ELSE IF ~ endswith_php(directory[i].path) THEN WalkFrom(directory, i + 1, class_map)
  ELSE LET r == extract_classes_from_file(directory[i].content)
       IN IF r.raised THEN [raised |-> TRUE, class_map |-> EmptyMap]
          ELSE WalkFrom(directory, i + 1,
                        AddClasses(class_map, r.classes, 1, directory[i].path))

build_class_map(directory) == WalkFrom(directory, 1, EmptyMap)

(* ----------------------- lru_cache(maxsize=100) ------------------------ *)
maxsize == 100

CacheIndex(key) ==
  IF \E i \in 1..Len(cache) : cache[i].key = key
  THEN CHOOSE i \in 1..Len(cache) : cache[i].key = key
  ELSE 0

RemoveAt(s, i) == SubSeq(s, 1, i - 1) \o SubSeq(s, i + 1, Len(s))

\* a hit moves the entry to the most recently used end
CacheTouch(i) == Append(RemoveAt(cache, i), cache[i])

\* after a miss: the key may have been added meanwhile; a full cache drops the oldest
CacheStore(key, value) ==
  IF CacheIndex(key) # 0 THEN cache
  ELSE IF Len(cache) >= maxsize THEN Append(Tail(cache), [key |-> key, value |-> value])
  ELSE Append(cache, [key |-> key, value |-> value])

(* --------------------------- the command ------------------------------- *)
ClassNameArgs == {"", "Baz", "  Baz  ", "Foo\\Bar\\Baz"}
Selections == {"", "Baz"}
Folders == {<<>>, <<Root>>}

\* str.strip() on the names above
strip(s) == IF s = "  Baz  " THEN "Baz" ELSE s

\* the callback find_and_handle_class passes to sublime.set_timeout
Callback(class_name, class_info) ==
  IF class_info # None
  THEN [run |-> "open_class_file", arg |-> class_info[2]]
  ELSE [run |-> "status_message", arg |-> "Class not found: " \o class_name]

InFlight == Len(threads) + Len(timeouts)

Directories ==
  {d \in SeqsUpTo(Files, MaxFiles) : \A i, j \in 1..Len(d) : d[i].path = d[j].path => i = j}

Init ==
  /\ dir \in Directories
  /\ threads = <<>>
  /\ cache = <<>>
  /\ timeouts = <<>>
  /\ ExtractIdle
  /\ InsertIdle

\* run: no class name and no selection, or no project folder: a status
\* message is shown and nothing of the plugin changes
RunWithoutSearch ==
  /\ {<<class_name, selection, folders>> \in ClassNameArgs \X Selections \X Folders :
        LET name == IF class_name = "" THEN selection ELSE class_name
        IN name = "" \/ folders = <<>>} # {}
  /\ UNCHANGED vars

\* run: threading.Thread(target=find_and_handle_class, args=(project_dir, name.strip())).start()
Run ==
  \E class_name \in ClassNameArgs, selection \in Selections, folders \in Folders :
    LET name == IF class_name = "" THEN selection ELSE class_name
    IN /\ name # "" /\ folders # <<>>
       /\ InFlight < MaxThreads
       /\ threads' = Append(threads, [project_dir |-> folders[1],
                                      class_name |-> strip(name), pc |-> "started"])
       /\ UNCHANGED <<dir, cache, timeouts, extractVars, insertVars>>

\* find_php_class answered from the cache, then set_timeout; the thread ends
CacheHit(t) ==
  LET th == threads[t]
      i == CacheIndex(<<th.project_dir, th.class_name>>)
  IN /\ th.pc = "started"
     /\ i # 0
     /\ cache' = CacheTouch(i)
     /\ timeouts' = Append(timeouts, Callback(th.class_name, cache[i].value))
     /\ threads' = RemoveAt(threads, t)
     /\ UNCHANGED <<dir, extractVars, insertVars>>

\* find_php_class not in the cache: the wrapped function starts its walk
CacheMiss(t) ==
  LET th == threads[t]
  IN /\ th.pc = "started"
     /\ CacheIndex(<<th.project_dir, th.class_name>>) = 0
     /\ threads' = [threads EXCEPT ![t].pc = "walking"]
     /\ UNCHANGED <<dir, cache, timeouts, extractVars, insertVars>>

\* build_class_map(...).get(class_name) returns: cached, then set_timeout
ScanReturns(t) ==
  LET th == threads[t]
      built == build_class_map(dir)
      class_info == Get(built.class_map, th.class_name)
  IN /\ th.pc = "walking"
     /\ ~ built.raised
     /\ cache' = CacheStore(<<th.project_dir, th.class_name>>, class_info)
     /\ timeouts' = Append(timeouts, Callback(th.class_name, class_info))
     /\ threads' = RemoveAt(threads, t)
     /\ UNCHANGED <<dir, extractVars, insertVars>>

\* build_class_map raises: the exception ends the thread, nothing is scheduled
ScanRaises(t) ==
  /\ threads[t].pc = "walking"
  /\ build_class_map(dir).raised
  /\ threads' = RemoveAt(threads, t)
  /\ UNCHANGED <<dir, cache, timeouts, extractVars, insertVars>>

\* the UI thread runs the next callback: open_class_file or status_message
RunTimeout ==
  /\ timeouts # <<>>
  /\ timeouts' = Tail(timeouts)
  /\ UNCHANGED <<dir, threads, cache, extractVars, insertVars>>

(* ------------------- the project changes on disk ----------------------- *)
InsertAt(s, i, e) == SubSeq(s, 1, i - 1) \o <<e>> \o SubSeq(s, i, Len(s))

AddFile ==
  \E f \in Files, i \in 1..(Len(dir) + 1) :
    /\ Len(dir) < MaxFiles
    /\ \A j \in 1..Len(dir) : dir[j].path # f.path
    /\ dir' = InsertAt(dir, i, f)
    /\ UNCHANGED <<threads, cache, timeouts, extractVars, insertVars>>

RemoveFile ==
  \E i \in 1..Len(dir) :
    /\ dir' = RemoveAt(dir, i)
    /\ UNCHANGED <<threads, cache, timeouts, extractVars, insertVars>>

EditFile ==
  \E i \in 1..Len(dir), f \in Files :
    /\ f.path = dir[i].path
    /\ f # dir[i]
    /\ dir' = [dir EXCEPT ![i] = f]
    /\ UNCHANGED <<threads, cache, timeouts, extractVars, insertVars>>

Next ==
  \/ RunWithoutSearch
  \/ Run
  \/ \E t \in 1..Len(threads) : CacheHit(t)
  \/ \E t \in 1..Len(threads) : CacheMiss(t)
  \/ \E t \in 1..Len(threads) : ScanReturns(t)
  \/ \E t \in 1..Len(threads) : ScanRaises(t)
  \/ RunTimeout
  \/ AddFile
  \/ RemoveFile
  \/ EditFile

Spec == Init /\ [][Next]_vars

(* ------------------- what the claims say of a scan --------------------- *)
FqBaz == "Foo\\Bar\\Baz"

\* the accepted declarations of the .php files, in the order they are visited
RECURSIVE Declarations(_, _)
Declarations(directory, i) ==
  IF i > Len(directory) THEN <<>>
  ELSE LET f == directory[i]
           found == IF endswith_php(f.path) THEN extract_classes_from_file(f.content).classes
                    ELSE <<>>
       IN [k \in 1..Len(found) |->
            [name |-> found[k][1],
             fq |-> IF found[k][2] = "" THEN found[k][1]
                    ELSE found[k][2] \o "\\" \o found[k][1],
             path |-> f.path]]
          \o Declarations(directory, i + 1)

Generates(d, key) == d.name = key \/ d.fq = key

\* the entry of the last visited declaration that generates the key
LastDeclaration(directory, key) ==
  LET ds == Declarations(directory, 1)
      hits == {i \in 1..Len(ds) : Generates(ds[i], key)}
  IN IF hits = {} THEN None
     ELSE LET last == CHOOSE i \in hits : \A j \in hits : j <= i
          IN <<ds[last].fq, ds[last].path>>

Readable(directory) ==
  \A i \in 1..Len(directory) : directory[i].content # Unreadable

HoldsNsBaz(directory) ==
  \E i \in 1..Len(directory) :
    endswith_php(directory[i].path) /\ directory[i].content = NsBaz

\* thread t ends in this step
Ends(t) == t \in 1..Len(threads) /\ threads' = RemoveAt(threads, t)

\* thread t ends its walk in this step with a map, and schedules its callback
ScanReturned(t) ==
  /\ Ends(t)
  /\ threads[t].pc = "walking"
  /\ Len(timeouts') = Len(timeouts) + 1

\* thread t is answered from the cache in this step
Answered(t) ==
  /\ Ends(t)
  /\ threads[t].pc = "started"
  /\ Len(timeouts') = Len(timeouts) + 1

ThreadKey(t) == <<threads[t].project_dir, threads[t].class_name>>

\* the value this scan put in the cache (the key was not cached meanwhile)
Stored(t, class_info) ==
  CacheIndex(ThreadKey(t)) = 0 => cache'[Len(cache')].value = class_info

Scheduled(t, class_info) ==
  timeouts'[Len(timeouts')] = Callback(threads[t].class_name, class_info)

\* C1 as stated: whenever a scan of a directory holding the file
\* `namespace Foo\Bar; class Baz {}` returns, the keys Baz and Foo\Bar\Baz
\* are both answered with an entry whose fully-qualified name is Foo\Bar\Baz.
C1_BothKeysAnswerFqBaz ==
  [][\A t \in 1..Len(threads) :
       (ScanReturned(t) /\ HoldsNsBaz(dir) /\ CacheIndex(ThreadKey(t)) = 0)
         => /\ cache'[Len(cache')].value # None
            /\ cache'[Len(cache')].value[1] = FqBaz]_vars

\* C1 amended: the key Foo\Bar\Baz is answered with fully-qualified name
\* Foo\Bar\Baz; the key Baz is answered with the fully-qualified name of
\* the last visited declaration named Baz, which is Foo\Bar\Baz unless a
\* declaration of Baz outside that namespace is visited after the file.
C1_FqKeyAndLastBaz ==
  [][\A t \in 1..Len(threads) :
       (ScanReturned(t) /\ HoldsNsBaz(dir) /\ CacheIndex(ThreadKey(t)) = 0)
         => LET class_info == cache'[Len(cache')].value
                ds == Declarations(dir, 1)
                bazs == {i \in 1..Len(ds) : ds[i].name = "Baz"}
                last == CHOOSE i \in bazs : \A j \in bazs : j <= i
            IN /\ class_info # None
               /\ threads[t].class_name = FqBaz => class_info[1] = FqBaz
               /\ threads[t].class_name = "Baz" => class_info[1] = ds[last].fq
               /\ (threads[t].class_name = "Baz" /\ class_info[1] # FqBaz)
                    => \E i \in 1..Len(dir) :
                         /\ endswith_php(dir[i].path)
                         /\ dir[i].content = PlainBaz
                         /\ \A j \in 1..Len(dir) :
                              (endswith_php(dir[j].path) /\ dir[j].content = NsBaz) => j < i]_vars

\* the scan of a directory that holds the file has answered both keys
C1_Witness ==
  /\ HoldsNsBaz(dir)
  /\ \E i, j \in 1..Len(cache) :
       /\ cache[i].key = <<Root, "Baz">> /\ cache[i].value = <<FqBaz, "a.php">>
       /\ cache[j].key = <<Root, FqBaz>> /\ cache[j].value = <<FqBaz, "a.php">>

\* C2: a lookup returns what a fresh build_class_map(project_dir).get(name)
\* returns at that moment, also when the root and name were looked up before.
C2_LookupIsFresh ==
  [][\A t \in 1..Len(threads) :
       ((Answered(t) \/ ScanReturned(t)) /\ ~ build_class_map(dir).raised)
         => Scheduled(t, Get(build_class_map(dir).class_map, threads[t].class_name))]_vars

\* C3: the scan of a directory holding one unreadable and one valid .php
\* file, in either order, completes with the declarations of the valid file.
OneBadOneGood(directory) ==
  /\ Len(directory) = 2
  /\ \A i \in 1..2 : endswith_php(directory[i].path)
  /\ \E i, j \in 1..2 :
       directory[i].content = Unreadable /\ directory[j].content \in {NsBaz, PlainBaz}

C3_BadFileIsSkipped ==
  [][\A t \in 1..Len(threads) :
       (Ends(t) /\ threads[t].pc = "walking" /\ OneBadOneGood(dir)
          /\ threads[t].class_name = "Baz")
         => /\ Len(timeouts') = Len(timeouts) + 1
            /\ timeouts'[Len(timeouts')].run = "open_class_file"]_vars

\* C6: whenever a scan returns, the entry under the key looked up is the
\* one of the last visited declaration that generates that key, as its
\* simple name or as its fully-qualified name (none when none does).
C6_LastVisitedWins ==
  [][\A t \in 1..Len(threads) :
       ScanReturned(t)
         => LET class_info == LastDeclaration(dir, threads[t].class_name)
            IN Scheduled(t, class_info) /\ Stored(t, class_info)]_vars

\* two files declare class Baz without a namespace and the scan has
\* answered Baz with the file visited last
C6_Witness ==
  /\ Len(dir) = 2
  /\ dir[1] = [path |-> "b.php", content |-> PlainBaz]
  /\ dir[2] = [path |-> "a.php", content |-> PlainBaz]
  /\ \E i \in 1..Len(cache) :
       cache[i].key = <<Root, "Baz">> /\ cache[i].value = <<"Baz", "a.php">>
  /\ \E i \in 1..Len(timeouts) :
       timeouts[i] = [run |-> "open_class_file", arg |-> "a.php"]

\* C7: every worker that ends has scheduled exactly one callback, whatever
\* the readable files of the directory hold.
C7_WorkerSchedulesCallback ==
  [][\A t \in 1..Len(threads) :
       (Ends(t) /\ Readable(dir)) => Len(timeouts') = Len(timeouts) + 1]_vars

\* C9: at most one worker walks the project root at any time.
C9_OneScanPerRoot ==
  \A t, u \in 1..Len(threads) :
    (/\ threads[t].pc = "walking" /\ threads[u].pc = "walking"
     /\ threads[t].project_dir = threads[u].project_dir) => t = u

(* ===================== InsertUseStatementCommand ======================= *)
\* the view's text: lines of one atom each, every line ended by a newline
LineKinds == {"<?php", "namespace App;", "use A;", "class X {}"}

RECURSIVE Flatten(_)
Flatten(lines) ==
  IF lines = <<>> THEN <<>> ELSE <<Head(lines), NL>> \o Flatten(Tail(lines))

\* characters of an atom
Size(atom) ==
  CASE atom = "<?php" -> 5
    [] atom = "namespace App;" -> 14
    [] atom = "use A;" -> 6
    [] atom = "use Foo\\Bar\\Baz;" -> 16
    [] atom = "class X {}" -> 10
    [] OTHER -> 1

\* character offset of the start of atom i of the text
RECURSIVE Begin(_, _)
Begin(text, i) == IF i = 1 THEN 0 ELSE Begin(text, i - 1) + Size(text[i - 1])

End(text, i) == Begin(text, i) + Size(text[i])

\* view.find(pattern, 0): index of the first atom the pattern matches, 0 if none
Find(text, atoms) ==
  IF \E i \in 1..Len(text) : text[i] \in atoms
  THEN CHOOSE i \in 1..Len(text) :
         text[i] \in atoms /\ \A j \in 1..(i - 1) : text[j] \notin atoms
  ELSE 0

\* view.find_all(pattern)[-1]
FindLast(text, atoms) ==
  IF \E i \in 1..Len(text) : text[i] \in atoms
  THEN CHOOSE i \in 1..Len(text) :
         text[i] \in atoms /\ \A j \in (i + 1)..Len(text) : text[j] \notin atoms
  ELSE 0

\* view.line(region).end(): every region here is a whole line but its newline
LineEnd(text, i) == End(text, i)

\* php_class_navigator.py: find_insert_position
find_insert_position(text) ==
  LET use_region == Find(text, {"use A;"})               \* ^\s*use\s+.*?;
      ns_region == Find(text, {"<?php", "namespace App;"}) \* <\?php|\bnamespace\b
  IN IF use_region # 0 THEN End(text, use_region) + 1
     ELSE IF ns_region # 0 THEN LineEnd(text, ns_region)
     ELSE 0

\* view.insert(edit, point, atoms); point is the start or the end of an atom
Insert(text, point, atoms) ==
  IF point = 0 THEN atoms \o text
  ELSE LET i == CHOOSE k \in 1..Len(text) : End(text, k) = point
       IN SubSeq(text, 1, i) \o atoms \o SubSeq(text, i + 1, Len(text))

InsertInit ==
  /\ buffer \in {Flatten(lines) : lines \in SeqsUpTo(LineKinds, MaxLines)}
  /\ inserted = [by |-> "", point |-> -1]
  /\ ExtractIdle
  /\ ScanIdle

\* php_class_navigator.py: InsertUseStatementCommand.run
NavigatorInsertUse ==
  /\ inserted.point = -1
  /\ LET insert_point == find_insert_position(buffer)
     IN /\ buffer' = Insert(buffer, insert_point, <<"use Foo\\Bar\\Baz;", NL>>)
        /\ inserted' = [by |-> "php_class_navigator", point |-> insert_point]
  /\ UNCHANGED <<extractVars, scanVars>>

\* EnhancedPHPCompanion.py: InsertUseStatementCommand.run
CompanionInsertUse ==
  /\ inserted.point = -1
  /\ LET last == FindLast(buffer, {"<?php", "namespace App;"})  \* <\?(php)?|\bnamespace\b
     IN IF last # 0
        THEN /\ buffer' = Insert(buffer, LineEnd(buffer, last), <<NL, "use Foo\\Bar\\Baz;", NL>>)
             /\ inserted' = [by |-> "EnhancedPHPCompanion", point |-> LineEnd(buffer, last)]
        ELSE /\ buffer' = Insert(buffer, 0, <<"<?php", NL, NL, "use Foo\\Bar\\Baz;", NL>>)
             /\ inserted' = [by |-> "EnhancedPHPCompanion", point |-> 0]
  /\ UNCHANGED <<extractVars, scanVars>>

InsertNext == NavigatorInsertUse \/ CompanionInsertUse

SpecInsert == InsertInit /\ [][InsertNext]_vars

\* where the claim puts the statement: the end of the last use line, else
\* the end of the namespace line, else the top of the file
ClaimedPoint(text) ==
  LET use == FindLast(text, {"use A;"})
      ns == Find(text, {"namespace App;"})
  IN IF use # 0 THEN End(text, use)
     ELSE IF ns # 0 THEN End(text, ns)
     ELSE 0

\* C10: in a buffer that holds use lines, the use statement is inserted at
\* the end of the last of them (the end of that line and the start of the
\* next line count as the same place).
C10_InsertAfterLastUse ==
  [][(/\ inserted.point = -1
      /\ inserted'.by = "php_class_navigator"
      /\ FindLast(buffer, {"use A;"}) # 0)
       => inserted'.point \in {ClaimedPoint(buffer), ClaimedPoint(buffer) + 1}]_vars

====
